---- MODULE Spec2Model ----
(***************************************************************************)
(* A model of the autocatalytic-set engine: AutocatalyticSet               *)
(* (class_AutocatalyticSet.py), the batch driver AssemblyAnalysis with its *)
(* two entry points find_assembly_list and find_assembly_index             *)
(* (class_AssemblyAnalysis.py), the statistics that                        *)
(* 03_Autocatalysis_Statistics.py collects from a returned list, and a     *)
(* caller that builds and extracts on one AutocatalyticSet by itself.      *)
(*                                                                         *)
(* A symbol (a Python str) is a sequence of characters; a character is a   *)
(* number (1..NumChars, or 1..MaxDistinct in a final product of pairwise   *)
(* distinct characters), ordered as Python orders code points.  The empty *)
(* string '' is << >>.  A probability and a draw of random.random() are    *)
(* counted in units of 1/Scale: a probability is one of 0..Scale, a draw   *)
(* (uniform in [0,1)) one of 0..Scale-1.                                   *)
(***************************************************************************)
EXTENDS Integers, Sequences, FiniteSets, TLC

\* ------------------------------------------------------------- bounds
NumChars == 2
MaxLen == 4
MaxN == 2
MaxBatchLen == 2
Scale == 2
MaxDistinct == 3
MaxCalls == 2
MaxDirectLen == 4
MaxRebuildLen == 2

Chars == 1..NumChars
Symbols == UNION {[1..k -> Chars] : k \in 0..MaxLen}
\* final products of two or more pairwise distinct characters, over an
\* alphabet of MaxDistinct characters
DistinctSymbols ==
    {s \in UNION {[1..k -> 1..MaxDistinct] : k \in 2..MaxDistinct} :
        \A i, j \in DOMAIN s : i # j => s[i] # s[j]}
Draws == 0..(Scale - 1)
Probabilities == 0..Scale
Strategies == {0, 1, 2}
\* switch_aut_prob: False (no amplification), True (linear), "square"
Modes == {"False", "True", "square"}

\* __init__ stores its arguments as they come: the valid values, a probability
\* below 0 and one above 1, a strategy id and a mode that no branch tests for
AcceptedProbabilities == -1..(Scale + 1)
AcceptedStrategies == Strategies \cup {3}
AcceptedModes == Modes \cup {"cubic"}

\* Python's None: the value of reactions_df before build_reactions, and of a
\* result that no call has returned yet (a string longer than any list built
\* here, since a string compares with a sequence of its own length)
None == "None (no object yet)"

\* the public methods of AssemblyAnalysis that run the trials
Methods == {"find_assembly_list", "find_assembly_index"}

\* a caller that uses an AutocatalyticSet by itself, as
\* 01_Generate_Random_Autocatalytic_Set.py does
Direct == "AutocatalyticSet"

VARIABLES
    \* AssemblyAnalysis.__init__
    final_product, n, catalyst_probability, switch_cat, switch_aut_prob,
    autocatalytic_subnetwork_counts, subnetwork_counts, max_depths,
    \* find_assembly_list: its local list, its loop counter, the value of
    \* whole_set_autocatalytic in each finished trial
    assembly_indices, trial, whole_set_autocatalytic,
    \* the AutocatalyticSet of the running trial
    reactions, reactions_df, subnetwork_dict,
    \* split_product: the call stack of the recursion
    stack,
    \* assign_catalysts: its locals, the loop position and the last draw
    all_possible_catalysts, used_catalysts, idx, draw,
    \* the method the caller invoked, the value it returned, and the
    \* statistics the caller collected from it
    method, result, stats,
    \* the calls made on one object: of build_reactions and of
    \* extract_subnetworks by a direct caller, of find_assembly_list
    builds, extracts, runs,
    \* where the program is, and the exception that ended it
    pc, err

vars == <<final_product, n, catalyst_probability, switch_cat, switch_aut_prob,
          autocatalytic_subnetwork_counts, subnetwork_counts, max_depths,
          assembly_indices, trial, whole_set_autocatalytic,
          reactions, reactions_df, subnetwork_dict, stack,
          all_possible_catalysts, used_catalysts, idx, draw,
          method, result, stats, builds, extracts, runs, pc, err>>

config == <<final_product, n, catalyst_probability, switch_cat, switch_aut_prob>>
analysis == <<autocatalytic_subnetwork_counts, subnetwork_counts, max_depths,
              assembly_indices, trial, whole_set_autocatalytic>>
assigner == <<all_possible_catalysts, used_catalysts, idx, draw>>
caller == <<method, result, stats>>
calls == <<builds, extracts, runs>>

\* ------------------------------------------------------------- strings
RECURSIVE insert(_, _)
insert(x, s) ==
    IF s = << >> THEN <<x>>
    ELSE IF x <= Head(s) THEN <<x>> \o s
    ELSE <<Head(s)>> \o insert(x, Tail(s))

\* ''.join(sorted(s))
RECURSIVE sorted(_)
sorted(s) == IF s = << >> THEN << >> ELSE insert(Head(s), sorted(Tail(s)))

\* list(final_product), as the set assign_catalysts makes of it
elements(fp) == {<<fp[i]>> : i \in DOMAIN fp}

\* ------------------------------------------------------------- split_product
reactant1(product, split_index) == sorted(SubSeq(product, 1, split_index))

\* a changed reactant2: the slice starts one character late
reactant2_late(product, split_index) ==
    sorted(SubSeq(product, split_index + 2, Len(product)))

reactant2(product, split_index) ==
    sorted(SubSeq(product, split_index + 1, Len(product)))

\* a changed is_leaf: a pair of characters is taken for a leaf
is_leaf_short(product) == Len(product) <= 2

\* if len(product) == 1: return
is_leaf(product) == Len(product) = 1

\* a changed split_indices: the upper end is len(product)
split_indices_to_end(product) == 1..Len(product)

\* random.randint(1, len(product) - 1); an empty range raises ValueError
split_indices(product) == 1..(Len(product) - 1)

\* a changed add_reaction: the first reactant is recorded as the product
add_reaction_first_reactant(rs, layer, r1, r2, product, catalyst) ==
    Append(rs, [Reaction |-> Len(rs), Layer |-> layer, Constituent1 |-> r1,
                Constituent2 |-> r2, Catalyst |-> catalyst, Product |-> r1])

\* a changed add_reaction: the ids are counted from 1
add_reaction_ids_from_one(rs, layer, r1, r2, product, catalyst) ==
    Append(rs, [Reaction |-> Len(rs) + 1, Layer |-> layer, Constituent1 |-> r1,
                Constituent2 |-> r2, Catalyst |-> catalyst, Product |-> product])

add_reaction(rs, layer, r1, r2, product, catalyst) ==
    Append(rs, [Reaction |-> Len(rs), Layer |-> layer, Constituent1 |-> r1,
                Constituent2 |-> r2, Catalyst |-> catalyst, Product |-> product])

frame(product, layer) ==
    [product |-> product, layer |-> layer, at |-> "call",
     reactant1 |-> << >>, reactant2 |-> << >>]

\* a changed first_call: the layer is passed on as it is
first_call_same_layer(fr) == frame(fr.reactant1, fr.layer)

\* self.split_product(reactant1, layer + 1)
first_call(fr) == frame(fr.reactant1, fr.layer + 1)

\* a changed second_call: the first half is split again
second_call_first_half(fr) == frame(fr.reactant1, fr.layer + 1)

\* a changed second_call: the layer is passed on as it is
second_call_same_layer(fr) == frame(fr.reactant2, fr.layer)

\* self.split_product(reactant2, layer + 1)
second_call(fr) == frame(fr.reactant2, fr.layer + 1)

top == stack[Len(stack)]
pop == SubSeq(stack, 1, Len(stack) - 1)

\* ------------------------------------------------------------- assign_catalysts
all_products(rs) == {rs[i].Product : i \in DOMAIN rs}

\* a changed catalyst_pool: the single characters are left out
catalyst_pool_products_only(fp, rs) == all_products(rs)

\* all_elements | all_products
catalyst_pool(fp, rs) == elements(fp) \cup all_products(rs)

\* a < b on Python strings
RECURSIVE precedes(_, _)
precedes(a, b) ==
    IF a = << >> THEN b # << >>
    ELSE IF b = << >> THEN FALSE
    ELSE IF Head(a) # Head(b) THEN Head(a) < Head(b)
    ELSE precedes(Tail(a), Tail(b))

RECURSIVE ascending(_)
ascending(pool) ==
    IF pool = {} THEN << >>
    ELSE LET first == CHOOSE x \in pool : \A y \in pool \ {x} : precedes(x, y)
         IN  <<first>> \o ascending(pool \ {first})

reversed(s) == [i \in 1..Len(s) |-> s[Len(s) + 1 - i]]

\* list(all_elements | all_products): a list in the iteration order of a set
\* of strings, which follows the strings' hashes and so differs from one
\* interpreter process to the next.  Two of these orders are followed, the
\* ascending and the descending one.
list_orders(pool) == {ascending(pool), reversed(ascending(pool))}

\* random.random() <= self.catalyst_probability
draw_passes(d, p) == d <= p

\* a changed possible_catalysts: the reaction's constituents are not excluded
possible_catalysts_with_constituents(strategy, pool, used, reaction) ==
    LET kept(e) == strategy \in {0, 1} => e \notin used
    IN  SelectSeq(pool, kept)

\* [e for e in all_possible_catalysts if ...]: a list in the order of the pool
possible_catalysts(strategy, pool, used, reaction) ==
    LET kept(e) ==
            /\ e \notin {reaction.Constituent1, reaction.Constituent2}
            /\ (strategy \in {0, 1} => e \notin used)
    IN  SelectSeq(pool, kept)

\* calculate_weighted_probabilities: the weight of e is len(e) / max_length /
\* total; its numerator decides whether random.choices can pick e
weight_numerator(e) == Len(e)

\* the positions of the list that random.choice (strategy 0) or
\* random.choices (1, 2) can return
choices(strategy, possible) ==
    IF strategy = 0 THEN DOMAIN possible
    ELSE {k \in DOMAIN possible : weight_numerator(possible[k]) > 0}

\* a changed used_after: the chosen catalyst is never marked as used
used_after_unmarked(strategy, used, c) == used

used_after(strategy, used, c) ==
    IF strategy \in {0, 1} THEN used \cup {c} ELSE used

\* ------------------------------------------------------------- extract_subnetworks
Rows(df) == {df[i] : i \in DOMAIN df}
Products(rows) == {r.Product : r \in rows}
Constituents(rows) ==
    {r.Constituent1 : r \in rows} \cup {r.Constituent2 : r \in rows}

\* pd.DataFrame([]) has no columns: reactions_df['Product'] raises KeyError
has_columns(df) == df # << >>

\* a changed get_subnetwork_loop: the frontier is never followed
get_subnetwork_loop_direct(df, subnetwork, reactants) == subnetwork

RECURSIVE get_subnetwork_loop(_, _, _)
get_subnetwork_loop(df, subnetwork, reactants) ==
    IF reactants = {} THEN subnetwork
    ELSE LET sub_reactions == {r \in Rows(df) : r.Product \in reactants}
             grown == subnetwork \cup sub_reactions
             next_reactants == Constituents(sub_reactions)
         IN  get_subnetwork_loop(df, grown, next_reactants \ Products(grown))

\* the rows of the returned frame (their order follows the iteration order of
\* a Python set and is not modelled)
get_subnetwork(df, product) ==
    LET subnetwork == {r \in Rows(df) : r.Product = product}
    IN  get_subnetwork_loop(df, subnetwork, Constituents(subnetwork))

\* self.subnetwork_dict[product] = subnetwork_df
put(dict, key, value) ==
    [k \in DOMAIN dict \cup {key} |-> IF k = key THEN value ELSE dict[k]]

\* a changed is_final: the entry of the final product is stored too
is_final_never(product, fp) == FALSE

\* a changed is_final: the final product is recognised only while the
\* SubnetworkDict of the set is empty
is_final_while_empty(product, fp) == product = fp /\ subnetwork_dict = << >>

\* product != self.final_product
is_final(product, fp) == product = fp

RECURSIVE process_product(_, _, _, _)
RECURSIVE process_constituents(_, _, _, _)
process_product(df, fp, dict, product) ==
    LET subnetwork_df == get_subnetwork(df, product)
    IN  IF subnetwork_df = {} THEN dict
        ELSE process_constituents(
                 df, fp,
                 IF ~is_final(product, fp) THEN put(dict, product, subnetwork_df)
                 ELSE dict,
                 Constituents(subnetwork_df))

\* for constituent in constituents: one order of the set's iteration
process_constituents(df, fp, dict, constituents) ==
    IF constituents = {} THEN dict
    ELSE LET constituent == CHOOSE c \in constituents : TRUE
             after == IF constituent \notin DOMAIN dict
                      THEN process_product(df, fp, dict, constituent)
                      ELSE dict
         IN  process_constituents(df, fp, after, constituents \ {constituent})

\* ------------------------------------------------------------- is_autocatalytic_subnetwork
\* a changed is_autocatalytic_subnetwork: the catalysts are looked up among
\* the products only
is_autocatalytic_subnetwork_among_products(rows, check_for_catalysts) ==
    LET all_elements == Products(rows)
        catalysts == {r.Catalyst : r \in rows} \ {<< >>}
    IN  IF check_for_catalysts /\ catalysts = {} THEN FALSE
        ELSE IF catalysts \ all_elements # {} THEN FALSE
        ELSE TRUE

\* a changed is_autocatalytic_subnetwork: '' is not discarded from the catalysts
is_autocatalytic_subnetwork_keeps_empty(rows, check_for_catalysts) ==
    LET all_elements == Products(rows) \cup Constituents(rows)
        catalysts == {r.Catalyst : r \in rows}
    IN  IF check_for_catalysts /\ catalysts = {} THEN FALSE
        ELSE IF catalysts \ all_elements # {} THEN FALSE
        ELSE TRUE

is_autocatalytic_subnetwork(rows, check_for_catalysts) ==
    LET all_elements == Products(rows) \cup Constituents(rows)
        catalysts == {r.Catalyst : r \in rows} \ {<< >>}
    IN  IF check_for_catalysts /\ catalysts = {} THEN FALSE
        ELSE IF catalysts \ all_elements # {} THEN FALSE
        ELSE TRUE

\* ------------------------------------------------------------- process_autocatalytic_set
\* a changed max_layer: the layer of the last reaction is kept, whether or not
\* it is the largest
max_layer_last(rs, i, max_depth) ==
    IF rs = << >> THEN max_depth ELSE rs[Len(rs)].Layer

RECURSIVE max_layer(_, _, _)
max_layer(rs, i, max_depth) ==
    IF i > Len(rs) THEN max_depth
    ELSE max_layer(rs, i + 1,
                   IF rs[i].Layer > max_depth THEN rs[i].Layer ELSE max_depth)

\* a changed get_max_depth: the final + 1 is left out
get_max_depth_no_increment(rs) == max_layer(rs, 1, 0)

\* max_depth = max_depth + 1
get_max_depth(rs) == max_layer(rs, 1, 0) + 1

\* a changed count_autocatalytic: the whole set is counted as one more
\* autocatalytic subnetwork
count_autocatalytic_and_whole(dict) ==
    Cardinality({k \in DOMAIN dict : is_autocatalytic_subnetwork(dict[k], TRUE)}) + 1

count_autocatalytic(dict) ==
    Cardinality({k \in DOMAIN dict : is_autocatalytic_subnetwork(dict[k], TRUE)})

\* ------------------------------------------------------------- find_assembly_list
repeat(x, k) == [i \in 1..k |-> x]

multiplier(whole, count) == 1 + whole + count

\* a changed contribution: "square" doubles the multiplier
contribution_doubled(mode, max_depth, whole, count) ==
    IF mode = "True" THEN repeat(max_depth, multiplier(whole, count))
    ELSE IF mode = "square"
         THEN repeat(max_depth, 2 * multiplier(whole, count))
    ELSE <<max_depth>>

contribution(mode, max_depth, whole, count) ==
    IF mode = "True" THEN repeat(max_depth, multiplier(whole, count))
    ELSE IF mode = "square"
         THEN repeat(max_depth, multiplier(whole, count) * multiplier(whole, count))
    ELSE <<max_depth>>

\* ------------------------------------------------------------- find_assembly_index
\* min(assembly_indices)
minimum(s) == CHOOSE m \in {s[i] : i \in DOMAIN s} : \A i \in DOMAIN s : m <= s[i]

\* ------------------------------------------------------------- statistics
\* A statistic is NaN or a number.  The mean is kept as the pair <<sum,
\* count>>; the median, the deviation, the variance and the quartiles are
\* numbers whose value is not modelled.
NaN == [nan |-> TRUE, value |-> 0]
number(v) == [nan |-> FALSE, value |-> v]

maximum(s) == CHOOSE m \in {s[i] : i \in DOMAIN s} : \A i \in DOMAIN s : m >= s[i]

RECURSIVE total(_)
total(s) == IF s = << >> THEN 0 ELSE Head(s) + total(Tail(s))

\* a changed length_val: len(assembly_list) is taken outside the test for an
\* empty list
length_val_outside(assembly_list) == number(Len(assembly_list))

\* length_val = len(assembly_list) if assembly_list, else float('nan')
length_val(assembly_list) ==
    IF assembly_list # << >> THEN number(Len(assembly_list)) ELSE NaN

\* if assembly_list: ... else: every value = float('nan'); then
\* mean_subnetwork_count = np.mean(subnetwork_counts) if subnetwork_counts
\* else float('nan')
statistics(assembly_list, counts) ==
    LET filled == assembly_list # << >>
    IN  [min_val |-> IF filled THEN number(minimum(assembly_list)) ELSE NaN,
         mean_val |-> IF filled
                      THEN number(<<total(assembly_list), Len(assembly_list)>>)
                      ELSE NaN,
         median_val |-> IF filled THEN number("float") ELSE NaN,
         max_val |-> IF filled THEN number(maximum(assembly_list)) ELSE NaN,
         std_val |-> IF filled THEN number("float") ELSE NaN,
         var_val |-> IF filled THEN number("float") ELSE NaN,
         range_val |-> IF filled
                       THEN number(maximum(assembly_list) - minimum(assembly_list))
                       ELSE NaN,
         q1_val |-> IF filled THEN number("float") ELSE NaN,
         q3_val |-> IF filled THEN number("float") ELSE NaN,
         iqr_val |-> IF filled THEN number("float") ELSE NaN,
         length_val |-> length_val(assembly_list),
         mean_subnetwork_count |->
             IF counts # << >> THEN number(<<total(counts), Len(counts)>>)
             ELSE NaN]

\* ------------------------------------------------------------- initial states
fresh_set ==
    /\ reactions = << >>
    /\ reactions_df = None
    /\ subnetwork_dict = << >>
    /\ stack = << >>
    /\ all_possible_catalysts = << >>
    /\ used_catalysts = {}
    /\ idx = 0
    /\ draw = 0

Init ==
    /\ final_product \in Symbols \cup DistinctSymbols
    /\ n \in 0..MaxN
    /\ n > 1 => Len(final_product) <= MaxBatchLen
    /\ catalyst_probability \in AcceptedProbabilities
    /\ switch_cat \in AcceptedStrategies
    /\ switch_aut_prob \in AcceptedModes
    \* values outside the valid ranges are explored on short products
    /\ \/ /\ catalyst_probability \in Probabilities
          /\ switch_cat \in Strategies
          /\ switch_aut_prob \in Modes
       \/ Len(final_product) <= MaxBatchLen /\ n <= 1
    /\ method \in Methods \cup {Direct}
    \* a direct caller has no n and no mode, and is explored with valid values
    \* on products of up to MaxDirectLen characters
    /\ method = Direct =>
           /\ final_product \in Symbols
           /\ Len(final_product) <= MaxDirectLen
           /\ catalyst_probability \in Probabilities
           /\ switch_cat \in Strategies
           /\ n = 0
           /\ switch_aut_prob = "False"
    \* the larger alphabet is explored on single runs of find_assembly_list
    \* with valid values
    /\ final_product \notin Symbols =>
           /\ catalyst_probability \in Probabilities
           /\ switch_cat \in Strategies
           /\ switch_aut_prob \in Modes
           /\ n <= 1
           /\ method = "find_assembly_list"
    \* find_assembly_index is explored on short products
    /\ method = "find_assembly_index" => Len(final_product) <= MaxBatchLen
    /\ result = None
    /\ stats = None
    /\ autocatalytic_subnetwork_counts = << >>
    /\ subnetwork_counts = << >>
    /\ max_depths = << >>
    /\ assembly_indices = << >>
    /\ whole_set_autocatalytic = << >>
    /\ trial = 0
    /\ builds = 0
    /\ extracts = 0
    /\ runs = IF method = Direct THEN 0 ELSE 1
    /\ fresh_set
    /\ pc = IF method = Direct THEN "ready" ELSE "loop"
    /\ err = "none"

\* ------------------------------------------------------------- actions
\* for _ in range(self.n): AutocatalyticSet(...); build_reactions() calls
\* split_product(self.final_product, 0)
StartTrial ==
    /\ pc = "loop"
    /\ trial < n
    /\ reactions' = << >>
    /\ reactions_df' = None
    /\ subnetwork_dict' = << >>
    /\ stack' = <<frame(final_product, 0)>>
    /\ all_possible_catalysts' = << >>
    /\ used_catalysts' = {}
    /\ idx' = 0
    /\ draw' = 0
    /\ pc' = "split"
    /\ UNCHANGED <<config, caller, calls, analysis, err>>

\* find_assembly_list: return assembly_indices (return_all_counts is False);
\* the last AutocatalyticSet, a local, is gone
Return ==
    /\ pc = "loop"
    /\ method = "find_assembly_list"
    /\ trial >= n
    /\ reactions' = << >>
    /\ reactions_df' = None
    /\ subnetwork_dict' = << >>
    /\ result' = assembly_indices
    /\ pc' = "returned"
    /\ UNCHANGED <<config, calls, method, stats, analysis, stack, assigner,
                   err>>

\* a changed CallAgain: the per-trial lists are emptied, as __init__ left them
CallAgain_resetting ==
    /\ pc = "returned"
    /\ method = "find_assembly_list"
    /\ runs < MaxCalls
    /\ Len(final_product) <= MaxBatchLen
    /\ runs' = runs + 1
    /\ assembly_indices' = << >>
    /\ trial' = 0
    /\ autocatalytic_subnetwork_counts' = << >>
    /\ subnetwork_counts' = << >>
    /\ max_depths' = << >>
    /\ whole_set_autocatalytic' = << >>
    /\ pc' = "loop"
    /\ UNCHANGED <<config, caller, builds, extracts, reactions,
                   reactions_df, subnetwork_dict, stack, assigner, err>>

\* the caller calls find_assembly_list again on the same AssemblyAnalysis
\* (line 118: assembly_indices = [], a local; the per-trial lists are
\* attributes and stay); up to MaxCalls calls, for a final product of at most
\* MaxBatchLen characters
CallAgain ==
    /\ pc = "returned"
    /\ method = "find_assembly_list"
    /\ runs < MaxCalls
    /\ Len(final_product) <= MaxBatchLen
    /\ runs' = runs + 1
    /\ assembly_indices' = << >>
    /\ trial' = 0
    /\ pc' = "loop"
    /\ UNCHANGED <<config, caller, builds, extracts,
                   autocatalytic_subnetwork_counts, subnetwork_counts,
                   max_depths, whole_set_autocatalytic, reactions,
                   reactions_df, subnetwork_dict, stack, assigner, err>>

\* find_assembly_index: float('inf') for an empty list, else its minimum
ReturnIndex ==
    /\ pc = "loop"
    /\ method = "find_assembly_index"
    /\ trial >= n
    /\ reactions' = << >>
    /\ reactions_df' = None
    /\ subnetwork_dict' = << >>
    /\ result' = IF assembly_indices = << >> THEN "inf"
                 ELSE minimum(assembly_indices)
    /\ pc' = "returned"
    /\ UNCHANGED <<config, calls, method, stats, analysis, stack, assigner,
                   err>>

\* the direct caller: autocatalytic_set.build_reactions(), on the object as
\* it is (build_reactions resets nothing); up to MaxCalls times, again only
\* for a final product of at most MaxRebuildLen characters, before any
\* extraction
CallBuild ==
    /\ method = Direct
    /\ pc = "ready"
    /\ builds < MaxCalls
    /\ builds >= 1 => Len(final_product) <= MaxRebuildLen
    /\ extracts = 0
    /\ builds' = builds + 1
    /\ stack' = <<frame(final_product, 0)>>
    /\ pc' = "split"
    /\ UNCHANGED <<config, caller, extracts, runs, analysis, reactions,
                   reactions_df, subnetwork_dict, assigner, err>>

\* the direct caller: autocatalytic_set.extract_subnetworks(), on a built
\* set; up to MaxCalls times
CallExtract ==
    /\ method = Direct
    /\ pc = "ready"
    /\ builds >= 1
    /\ extracts < MaxCalls
    /\ extracts' = extracts + 1
    /\ pc' = "extract"
    /\ UNCHANGED <<config, caller, builds, runs, analysis, reactions,
                   reactions_df, subnetwork_dict, stack, assigner, err>>

\* split_product on a single character: return
SplitLeaf ==
    /\ pc = "split" /\ stack # << >> /\ top.at = "call"
    /\ is_leaf(top.product)
    /\ stack' = pop
    /\ UNCHANGED <<config, caller, calls, analysis, reactions, reactions_df,
                   subnetwork_dict, assigner, pc, err>>

\* split_product on '': random.randint(1, -1) raises ValueError
SplitEmpty ==
    /\ pc = "split" /\ stack # << >> /\ top.at = "call"
    /\ ~is_leaf(top.product)
    /\ split_indices(top.product) = {}
    /\ pc' = "raised"
    /\ err' = "ValueError"
    /\ UNCHANGED <<config, caller, calls, analysis, reactions, reactions_df,
                   subnetwork_dict, stack, assigner>>

\* split_product: choose the split, sort the halves, recurse into the first
SplitChoose ==
    /\ pc = "split" /\ stack # << >> /\ top.at = "call"
    /\ ~is_leaf(top.product)
    /\ \E split_index \in split_indices(top.product) :
         LET split == [top EXCEPT
                          !.at = "first",
                          !.reactant1 = reactant1(top.product, split_index),
                          !.reactant2 = reactant2(top.product, split_index)]
         IN  stack' = Append([stack EXCEPT ![Len(stack)] = split],
                             first_call(split))
    /\ UNCHANGED <<config, caller, calls, analysis, reactions, reactions_df,
                   subnetwork_dict, assigner, pc, err>>

\* the first recursive call returned: recurse into the second half
SplitSecond ==
    /\ pc = "split" /\ stack # << >> /\ top.at = "first"
    /\ stack' = Append([stack EXCEPT ![Len(stack)] = [top EXCEPT !.at = "second"]],
                       second_call(top))
    /\ UNCHANGED <<config, caller, calls, analysis, reactions, reactions_df,
                   subnetwork_dict, assigner, pc, err>>

\* both recursive calls returned: add_reaction(..., catalyst=''), return
SplitRecord ==
    /\ pc = "split" /\ stack # << >> /\ top.at = "second"
    /\ reactions' = add_reaction(reactions, top.layer, top.reactant1,
                                 top.reactant2, top.product, << >>)
    /\ stack' = pop
    /\ UNCHANGED <<config, caller, calls, analysis, reactions_df,
                   subnetwork_dict, assigner, pc, err>>

\* assign_catalysts: the pool and the used set, before the loop
AssignStart ==
    /\ pc = "split" /\ stack = << >>
    /\ all_possible_catalysts' \in list_orders(catalyst_pool(final_product, reactions))
    /\ used_catalysts' = {}
    /\ idx' = 1
    /\ pc' = "assign"
    /\ UNCHANGED <<config, caller, calls, analysis, reactions, reactions_df,
                   subnetwork_dict, stack, draw, err>>

\* a changed set_catalyst: the choice is written to the Product field
set_catalyst_as_product(i, c) == [reactions EXCEPT ![i].Product = c]

\* reaction['Catalyst'] = c
set_catalyst(i, c) == [reactions EXCEPT ![i].Catalyst = c]

\* one iteration of "for reaction in self.reactions": the draw fails
AssignSkip ==
    /\ pc = "assign" /\ switch_cat \in Strategies /\ idx <= Len(reactions)
    /\ \E d \in Draws :
         /\ ~draw_passes(d, catalyst_probability)
         /\ draw' = d
    /\ reactions' = set_catalyst(idx, << >>)
    /\ idx' = idx + 1
    /\ UNCHANGED <<config, caller, calls, analysis, reactions_df,
                   subnetwork_dict, stack, all_possible_catalysts,
                   used_catalysts, pc, err>>

\* the draw passes and a catalyst can be chosen
AssignChoose ==
    /\ pc = "assign" /\ switch_cat \in Strategies /\ idx <= Len(reactions)
    /\ \E d \in Draws :
         /\ draw_passes(d, catalyst_probability)
         /\ draw' = d
    /\ LET possible == possible_catalysts(switch_cat, all_possible_catalysts,
                                          used_catalysts, reactions[idx])
       IN  /\ possible # << >>
           /\ \E k \in choices(switch_cat, possible) :
                /\ reactions' = set_catalyst(idx, possible[k])
                /\ used_catalysts' =
                       used_after(switch_cat, used_catalysts, possible[k])
    /\ idx' = idx + 1
    /\ UNCHANGED <<config, caller, calls, analysis, reactions_df,
                   subnetwork_dict, stack, all_possible_catalysts, pc, err>>

\* the draw passes and no catalyst is left to choose
AssignNone ==
    /\ pc = "assign" /\ switch_cat \in Strategies /\ idx <= Len(reactions)
    /\ \E d \in Draws :
         /\ draw_passes(d, catalyst_probability)
         /\ draw' = d
    /\ possible_catalysts(switch_cat, all_possible_catalysts,
                          used_catalysts, reactions[idx]) = << >>
    /\ reactions' = set_catalyst(idx, << >>)
    /\ idx' = idx + 1
    /\ UNCHANGED <<config, caller, calls, analysis, reactions_df,
                   subnetwork_dict, stack, all_possible_catalysts,
                   used_catalysts, pc, err>>

\* assign_catalysts returns (its locals are gone): its loop is over, or
\* switch_cat is none of 0, 1, 2 and no branch of the if/elif chain runs;
\* build_reactions: self.reactions_df = pd.DataFrame(self.reactions)
BuildDone ==
    /\ pc = "assign"
    /\ idx > Len(reactions) \/ switch_cat \notin Strategies
    /\ reactions_df' = reactions
    /\ all_possible_catalysts' = << >>
    /\ used_catalysts' = {}
    /\ idx' = 0
    /\ draw' = 0
    /\ pc' = IF method = Direct THEN "ready" ELSE "extract"
    /\ UNCHANGED <<config, caller, calls, analysis, reactions, subnetwork_dict,
                   stack, err>>

\* extract_subnetworks, called by process_autocatalytic_set or by the direct
\* caller: process_product(self.final_product) on the dict as it is
ExtractSubnetworks ==
    /\ pc = "extract"
    /\ has_columns(reactions_df)
    /\ subnetwork_dict' = process_product(reactions_df, final_product,
                                          subnetwork_dict, final_product)
    /\ pc' = IF method = Direct THEN "ready" ELSE "analyse"
    /\ UNCHANGED <<config, caller, calls, analysis, reactions, reactions_df,
                   stack, assigner, err>>

\* get_subnetwork on a frame without columns: KeyError
ExtractRaises ==
    /\ pc = "extract"
    /\ ~has_columns(reactions_df)
    /\ pc' = "raised"
    /\ err' = "KeyError"
    /\ UNCHANGED <<config, caller, calls, analysis, reactions, reactions_df,
                   subnetwork_dict, stack, assigner>>

\* find_assembly_index: process_autocatalytic_set returns three values and
\* line 69 unpacks them into two names: ValueError (too many values to
\* unpack).  The rest of the loop body, lines 71-76, never runs.
UnpackRaises ==
    /\ pc = "analyse"
    /\ method = "find_assembly_index"
    /\ pc' = "raised"
    /\ err' = "ValueError"
    /\ UNCHANGED <<config, caller, calls, analysis, reactions, reactions_df,
                   subnetwork_dict, stack, assigner>>

\* find_assembly_list: the rest of process_autocatalytic_set and of the loop
\* body
FinishTrial ==
    /\ pc = "analyse"
    /\ method = "find_assembly_list"
    /\ LET max_depth == get_max_depth(reactions)
           count == count_autocatalytic(subnetwork_dict)
           whole == IF is_autocatalytic_subnetwork(Rows(reactions_df), TRUE)
                    THEN 1 ELSE 0
       IN  /\ autocatalytic_subnetwork_counts' =
                  Append(autocatalytic_subnetwork_counts, count)
           /\ subnetwork_counts' =
                  Append(subnetwork_counts, Cardinality(DOMAIN subnetwork_dict))
           /\ max_depths' = Append(max_depths, max_depth)
           /\ whole_set_autocatalytic' = Append(whole_set_autocatalytic, whole)
           /\ assembly_indices' =
                  assembly_indices \o contribution(switch_aut_prob, max_depth, whole, count)
    /\ trial' = trial + 1
    /\ pc' = "loop"
    /\ UNCHANGED <<config, caller, calls, reactions, reactions_df,
                   subnetwork_dict, stack, assigner, err>>

\* 03_Autocatalysis_Statistics.py: the statistics of the returned list
CollectStatistics ==
    /\ pc = "returned"
    /\ method = "find_assembly_list"
    /\ stats' = statistics(result, autocatalytic_subnetwork_counts)
    /\ pc' = "collected"
    /\ UNCHANGED <<config, calls, method, result, analysis, reactions,
                   reactions_df, subnetwork_dict, stack, assigner, err>>

Next ==
    \/ CallBuild
    \/ CallExtract
    \/ StartTrial
    \/ Return
    \/ CallAgain
    \/ ReturnIndex
    \/ UnpackRaises
    \/ CollectStatistics
    \/ SplitLeaf
    \/ SplitEmpty
    \/ SplitChoose
    \/ SplitSecond
    \/ SplitRecord
    \/ AssignStart
    \/ AssignSkip
    \/ AssignChoose
    \/ AssignNone
    \/ BuildDone
    \/ ExtractSubnetworks
    \/ ExtractRaises
    \/ FinishTrial

Spec == Init /\ [][Next]_vars

\* ------------------------------------------------------------- properties
\* build_reactions has returned for the AutocatalyticSet of the running trial
Built == reactions_df # None

\* a set that build_reactions has built once (a direct caller may build again,
\* on top of the first build)
BuiltOnce == Built /\ builds <= 1

Composite(symbol) == Len(symbol) >= 2

\* the entry a list got in the trial that has just finished
LastOf(list) == list[Len(list)]

ProducersOf(symbol) == {i \in DOMAIN reactions : reactions[i].Product = symbol}

\* the places (reaction, slot) where a symbol is a constituent
UsesOf(symbol) ==
    {i \in DOMAIN reactions : reactions[i].Constituent1 = symbol} \X {1}
    \cup {i \in DOMAIN reactions : reactions[i].Constituent2 = symbol} \X {2}

CompositeConstituents == {c \in Constituents(Rows(reactions)) : Composite(c)}

\* C1 (as claimed): after build_reactions every reaction's product is the
\* sorted concatenation of its two constituents, the root reaction included.
C1_ProductIsSortedConcatenation ==
    Built => \A i \in DOMAIN reactions :
                 reactions[i].Product =
                     sorted(reactions[i].Constituent1 \o reactions[i].Constituent2)

\* C2 (as claimed): every generated ReactionSet, whatever the final product,
\* has exactly one reaction whose product is the final product.
C2_ExactlyOneRootAnyProduct ==
    BuiltOnce => Cardinality(ProducersOf(final_product)) = 1

\* C2 (amended): a generated ReactionSet of a final product of length >= 2 has
\* exactly one reaction whose product is the final product; the ReactionSet of
\* a single-character final product is empty and has none.
C2_ExactlyOneRoot ==
    BuiltOnce =>
        /\ Len(final_product) >= 2 => Cardinality(ProducersOf(final_product)) = 1
        /\ Len(final_product) = 1 => reactions = << >>

\* a built set of a final product of the greatest length
C2_Witness ==
    /\ Built
    /\ Len(final_product) = MaxLen
    /\ Len(reactions) = MaxLen - 1
    /\ Cardinality(ProducersOf(final_product)) = 1

\* C3 (as claimed): every composite symbol that is a constituent of some
\* reaction is the product of exactly one reaction.
C3_SplitExactlyOnce ==
    BuiltOnce => \A c \in CompositeConstituents : Cardinality(ProducersOf(c)) = 1

\* C3 (amended): every composite symbol that is a constituent of some reaction
\* is the product of at least one reaction, and of exactly as many reactions
\* as it has occurrences as a constituent: once when it occurs once, twice
\* when two branches of the split yield the same string.
C3_SplitOncePerOccurrence ==
    BuiltOnce => \A c \in CompositeConstituents :
                 /\ Cardinality(ProducersOf(c)) >= 1
                 /\ Cardinality(ProducersOf(c)) = Cardinality(UsesOf(c))

\* a composite constituent that occurs twice and is split twice
C3_Witness ==
    /\ Built
    /\ \E c \in CompositeConstituents : Cardinality(ProducersOf(c)) = 2

\* the non-empty catalyst values of a table, and the symbols it produces or consumes
CatalystsOf(rows) == {r.Catalyst : r \in rows} \ {<< >>}
SymbolsOf(rows) == Products(rows) \cup Constituents(rows)

AutocatalyticRule(rows, check_for_catalysts) ==
    /\ CatalystsOf(rows) \subseteq SymbolsOf(rows)
    /\ check_for_catalysts => CatalystsOf(rows) # {}

\* C4: on the reaction table of a built set and on every selection of its
\* rows (every subnetwork is one), with check_for_catalysts true or false,
\* is_autocatalytic_subnetwork returns true exactly when every non-empty
\* catalyst of the rows is a product or constituent of the rows and, if
\* check_for_catalysts, there is at least one non-empty catalyst.
C4_AutocatalyticExactly ==
    (Built /\ has_columns(reactions_df)) =>
        \A rows \in SUBSET Rows(reactions_df) : \A check \in BOOLEAN :
            is_autocatalytic_subnetwork(rows, check) = AutocatalyticRule(rows, check)

\* a subnetwork with a catalyst that is none of its own symbols is rejected
C4_Witness ==
    /\ pc = "analyse"
    /\ \E k \in DOMAIN subnetwork_dict :
         /\ CatalystsOf(subnetwork_dict[k]) # {}
         /\ ~(CatalystsOf(subnetwork_dict[k]) \subseteq SymbolsOf(subnetwork_dict[k]))
         /\ ~is_autocatalytic_subnetwork(subnetwork_dict[k], TRUE)

\* the reactions assign_catalysts has been through
Assigned ==
    (IF pc = "assign" THEN 1..(idx - 1) ELSE {})
        \cup (IF Built THEN DOMAIN reactions_df ELSE {})

Catalysed == {i \in Assigned : reactions[i].Catalyst # << >>}

SharedCatalyst ==
    \E i, j \in Catalysed : i # j /\ reactions[i].Catalyst = reactions[j].Catalyst

\* C5: under strategies 0 and 1 no symbol is the catalyst of more than one
\* reaction of a build (under strategy 2 it can be: C5_ReuseUnderStrategy2 is
\* reachable).
C5_NoReuseUnderStrategies01 ==
    (switch_cat \in {0, 1} /\ builds <= 1) => ~SharedCatalyst

\* a build under strategy 0 or 1 that gave two reactions a catalyst
C5_Witness ==
    /\ Built
    /\ switch_cat \in {0, 1}
    /\ Cardinality(Catalysed) >= 2

\* C5, second half: under strategy 2 two reactions of a build share a catalyst
C5_ReuseUnderStrategy2 == Built /\ switch_cat = 2 /\ SharedCatalyst

\* C6 (as claimed): a reaction whose draw is >= the probability ends with an
\* empty catalyst, and with probability 0.0 no reaction gets a catalyst.
C6_DrawAtLeastProbabilityLeavesEmpty ==
    /\ (pc = "assign" /\ idx > 1 /\ draw >= catalyst_probability)
           => reactions[idx - 1].Catalyst = << >>
    /\ catalyst_probability = 0 => Catalysed = {}

\* final_product = "AB", n = 1, probability = 0.0, no amplification
C7_Case ==
    /\ final_product = <<1, 2>>
    /\ n = 1
    /\ catalyst_probability = 0
    /\ switch_aut_prob = "False"
    /\ runs = 1

C8_SingleCharacterTrialCompletes ==
    Len(final_product) = 1 =>
        /\ err = "none"
        /\ Built => reactions = << >>
        /\ (pc = "returned" /\ n = 1)
               => /\ max_depths = <<1>>
                  /\ assembly_indices = <<1>>

\* how often the claim has a trial's max_depth appended
Copies(mode, m) ==
    CASE mode = "False" -> 1
      [] mode = "True" -> m
      [] mode = "square" -> m * m

MultiplierOf(i) == 1 + whole_set_autocatalytic[i] + autocatalytic_subnetwork_counts[i]

RECURSIVE AmplifiedUpTo(_)
AmplifiedUpTo(i) ==
    IF i = 0 THEN << >>
    ELSE AmplifiedUpTo(i - 1)
             \o [k \in 1..Copies(switch_aut_prob, MultiplierOf(i)) |-> max_depths[i]]

RECURSIVE CopiesUpTo(_)
CopiesUpTo(i) ==
    IF i = 0 THEN 0
    ELSE CopiesUpTo(i - 1) + Copies(switch_aut_prob, MultiplierOf(i))

\* C9: in the first call on a fresh object the list holds, trial after trial, the trial's max_depth once (mode
\* none), m times (linear) or m*m times (square), where m = 1 +
\* whole_set_autocatalytic + autocatalytic_subnetwork_count of that trial;
\* the returned list has length n in mode none and the sum of m (of m*m)
\* over the n trials otherwise.
C9_Amplification ==
    (switch_aut_prob \in Modes /\ runs = 1) =>
        /\ Len(max_depths) = trial
        /\ assembly_indices = AmplifiedUpTo(trial)
        /\ (pc = "loop" /\ trial > 0) =>
               /\ whole_set_autocatalytic[trial] =
                      (IF AutocatalyticRule(Rows(reactions_df), TRUE) THEN 1 ELSE 0)
               /\ autocatalytic_subnetwork_counts[trial] =
                      Cardinality({k \in DOMAIN subnetwork_dict :
                                       AutocatalyticRule(subnetwork_dict[k], TRUE)})
        /\ pc = "returned" =>
               /\ trial = n
               /\ Len(assembly_indices) = CopiesUpTo(n)
               /\ switch_aut_prob = "False" => Len(assembly_indices) = n

\* a trial with m = 4 in mode square: sixteen copies
C9_Witness ==
    /\ pc = "returned"
    /\ switch_aut_prob = "square"
    /\ n = 1
    /\ MultiplierOf(1) = 4
    /\ Len(assembly_indices) = 16

\* extract_subnetworks has returned for the set of the running trial
Extracted == pc = "analyse" \/ (pc = "loop" /\ trial > 0)

\* C10: after extract_subnetworks the keys of the SubnetworkDict are exactly
\* the product symbols of the ReactionSet other than the final product: the
\* final product is no key, no single character is a key, no intermediate
\* product is missing.
C10_KeysAreIntermediateProducts ==
    Extracted =>
        /\ DOMAIN subnetwork_dict = Products(Rows(reactions_df)) \ {final_product}
        /\ final_product \notin DOMAIN subnetwork_dict
        /\ \A k \in DOMAIN subnetwork_dict : Composite(k)

\* an extraction that stored two subnetworks
C10_Witness ==
    /\ pc = "analyse"
    /\ Cardinality(DOMAIN subnetwork_dict) >= 2

\* ------------------------------------------------------------- C11
\* the symbols reached from a set of symbols in at most k steps, a step going
\* from a product to the constituents of the rows that produce it
RECURSIVE ReachedIn(_, _, _)
ReachedIn(rows, symbols, k) ==
    IF k = 0 THEN symbols
    ELSE ReachedIn(rows,
                   symbols \cup Constituents({r \in rows : r.Product \in symbols}),
                   k - 1)

ReachedFrom(rows, p) == ReachedIn(rows, {p}, Cardinality(rows))

ProducerClosed(rows, subnetwork) ==
    \A r \in subnetwork : \A q \in rows :
        q.Product \in {r.Constituent1, r.Constituent2} => q \in subnetwork

\* C11: for every key p of the SubnetworkDict the subnetwork of p is the
\* producer closure of p in the full ReactionSet: a subset of the full set's
\* rows (duplicate-free, being a set of rows), holding every row whose product
\* is p, closed under the producers of its rows' constituents, and holding no
\* row whose product is not reached from p.
C11_SubnetworkIsProducerClosure ==
    Extracted =>
        \A p \in DOMAIN subnetwork_dict :
            LET full == Rows(reactions_df)
                subnetwork == subnetwork_dict[p]
            IN  /\ subnetwork \subseteq full
                /\ \A r \in full : r.Product = p => r \in subnetwork
                /\ ProducerClosed(full, subnetwork)
                /\ \A r \in subnetwork : r.Product \in ReachedFrom(full, p)

\* a key whose closure holds a row that does not produce the key and leaves
\* out a row of the full set
C11_Witness ==
    /\ pc = "analyse"
    /\ \E p \in DOMAIN subnetwork_dict :
           /\ \E r \in subnetwork_dict[p] : r.Product # p
           /\ Rows(reactions_df) \ subnetwork_dict[p] # {}

\* ------------------------------------------------------------- C12
ValidConfiguration ==
    /\ catalyst_probability \in Probabilities
    /\ switch_cat \in Strategies
    /\ switch_aut_prob \in Modes

\* C12 (as claimed): a probability outside [0,1], a strategy id outside
\* {0,1,2} or a mode other than none/linear/square is rejected before any
\* trial runs: no ReactionSet is built and no contribution is produced.
C12_InvalidConfigurationRejected ==
    ~ValidConfiguration =>
        /\ reactions = << >>
        /\ assembly_indices = << >>

\* ------------------------------------------------------------- C13
\* C13 (as claimed): an empty final_product is rejected at configuration time:
\* no trial starts and no recursive split is attempted.
C13_EmptyProductRejected ==
    (final_product = << >> /\ method \in Methods) =>
        (pc = "loop" /\ trial = 0 /\ stack = << >>)

\* ------------------------------------------------------------- C14
\* the reaction the last iteration of assign_catalysts gave a catalyst to
JustCatalysed ==
    /\ pc = "assign"
    /\ idx > 1
    /\ reactions[idx - 1].Catalyst # << >>

\* the candidates of that iteration, had the pool been listed in this order
CandidatesIn(order) ==
    LET c == reactions[idx - 1].Catalyst
        used_before == IF switch_cat \in {0, 1} THEN used_catalysts \ {c}
                       ELSE used_catalysts
    IN  possible_catalysts(switch_cat, order, used_before, reactions[idx - 1])

\* the position random.choice returned in that iteration
ChosenPosition ==
    CHOOSE k \in DOMAIN CandidatesIn(all_possible_catalysts) :
        CandidatesIn(all_possible_catalysts)[k] = reactions[idx - 1].Catalyst

\* C14 (as claimed): a run that makes the same random draws gets the same
\* catalyst assignment, whatever the iteration order of the candidate pool:
\* under strategy 0 the position that random.choice returned selects the same
\* catalyst in every order of the pool.
C14_SameDrawsSameCatalyst ==
    (JustCatalysed /\ switch_cat = 0) =>
        \A order \in list_orders(catalyst_pool(final_product, reactions)) :
            CandidatesIn(order)[ChosenPosition] = reactions[idx - 1].Catalyst

\* ------------------------------------------------------------- C15
\* C15 (as claimed): for every n >= 1 find_assembly_index runs its n trials
\* without an error and returns the minimum max_depth over them (stated for
\* products of two characters or more, whose extraction does not fail).
C15_IndexReturnsMinimum ==
    (method = "find_assembly_index" /\ n >= 1 /\ Len(final_product) >= 2) =>
        /\ err = "none"
        /\ pc = "returned" =>
               /\ Len(max_depths) = n
               /\ result = minimum(max_depths)

\* ------------------------------------------------------------- C16
\* C16: with n = 0 the batch run raises nothing: find_assembly_list returns
\* an empty contribution list and leaves the per-trial lists empty, and every
\* statistic the caller collects is NaN.
C16_ZeroTrialsGiveNaN ==
    (n = 0 /\ method = "find_assembly_list") =>
        /\ err = "none"
        /\ pc \in {"loop", "returned", "collected"}
        /\ autocatalytic_subnetwork_counts = << >>
        /\ subnetwork_counts = << >>
        /\ max_depths = << >>
        /\ pc \in {"returned", "collected"} => result = << >>
        /\ pc = "collected" => \A name \in DOMAIN stats : stats[name].nan

\* the caller collected its statistics from a run of zero trials
C16_Witness ==
    /\ n = 0
    /\ method = "find_assembly_list"
    /\ pc = "collected"
    /\ stats.min_val = NaN
    /\ stats.mean_subnetwork_count = NaN

\* ------------------------------------------------------------- C17
LayersOf(rs) == {rs[i].Layer : i \in DOMAIN rs}
LargestLayer(rs) == CHOOSE m \in LayersOf(rs) : \A l \in LayersOf(rs) : l <= m

\* C17: the max_depth recorded for a trial is the largest layer over the
\* reactions of the trial's ReactionSet plus 1, whatever the catalysts, the
\* strategy and the amplification mode.
C17_MaxDepthIsLargestLayerPlusOne ==
    (pc = "loop" /\ trial > 0) =>
        /\ reactions # << >>
        /\ LastOf(max_depths) = LargestLayer(reactions) + 1

\* a finished trial of depth 3 whose set carries a catalyst
C17_Witness ==
    /\ pc = "loop"
    /\ trial = 1
    /\ max_depths[1] = 3
    /\ Catalysed # {}

\* ------------------------------------------------------------- C18
\* C18: a run of find_assembly_list on a fresh AssemblyAnalysis records one
\* autocatalytic-subnetwork count, one subnetwork count and one max_depth per
\* finished trial, n of each when it returns, in every amplification mode;
\* in every trial the autocatalytic count is at most the subnetwork count.
C18_OneEntryPerTrial ==
    (method = "find_assembly_list" /\ runs = 1) =>
        /\ Len(autocatalytic_subnetwork_counts) = trial
        /\ Len(subnetwork_counts) = trial
        /\ Len(max_depths) = trial
        /\ pc \in {"returned", "collected"} => trial = n
        /\ \A i \in 1..trial :
               autocatalytic_subnetwork_counts[i] <= subnetwork_counts[i]

\* a returned run whose trial found two subnetworks, one of them autocatalytic
C18_Witness ==
    /\ method = "find_assembly_list"
    /\ pc = "returned"
    /\ n = 1
    /\ Len(max_depths) = 1
    /\ subnetwork_counts = <<2>>
    /\ autocatalytic_subnetwork_counts = <<1>>

\* ------------------------------------------------------------- C19
\* C19: no single-character symbol is the product of a reaction, in the list
\* of reactions while it is generated and in the built table.
C19_NoLeafProduct ==
    /\ \A i \in DOMAIN reactions : Len(reactions[i].Product) # 1
    /\ Built => \A r \in Rows(reactions_df) : Len(r.Product) # 1

\* a built set with three reactions, whose constituents include leaves
C19_Witness ==
    /\ Built
    /\ Len(reactions_df) = 3
    /\ \E r \in Rows(reactions_df) : Len(r.Constituent1) = 1

\* ------------------------------------------------------------- C20
\* a list of reactions without its Catalyst fields
WithoutCatalysts(rs) ==
    [i \in DOMAIN rs |->
        [Reaction |-> rs[i].Reaction, Layer |-> rs[i].Layer,
         Constituent1 |-> rs[i].Constituent1,
         Constituent2 |-> rs[i].Constituent2, Product |-> rs[i].Product]]

\* C20: no step of assign_catalysts, from its entry to its return, changes
\* the number or the order of the reactions or a reaction's id, layer,
\* constituents or product, under any strategy and probability.
C20_AssignChangesOnlyCatalyst ==
    [][(pc = "assign" \/ pc' = "assign")
          => WithoutCatalysts(reactions') = WithoutCatalysts(reactions)]_vars

\* assign_catalysts has returned and gave two of three reactions a catalyst
C20_Witness ==
    /\ pc = "extract"
    /\ Len(reactions) = 3
    /\ Cardinality({i \in DOMAIN reactions : reactions[i].Catalyst # << >>}) = 2

\* ------------------------------------------------------------- C21
\* C21: every non-empty catalyst that assign_catalysts assigned is a member
\* of the pool (the single characters of the final product and all product
\* values of the list) and is neither constituent of its reaction.
C21_CatalystFromPoolNotConstituent ==
    \A i \in Catalysed :
        /\ reactions[i].Catalyst \in catalyst_pool(final_product, reactions)
        /\ reactions[i].Catalyst # reactions[i].Constituent1
        /\ reactions[i].Catalyst # reactions[i].Constituent2

\* a built set where one reaction is catalysed by a product recorded after
\* it and another by its own product
C21_Witness ==
    /\ Built
    /\ \E i, j \in DOMAIN reactions :
           i < j /\ reactions[i].Catalyst = reactions[j].Product
    /\ \E k \in DOMAIN reactions : reactions[k].Catalyst = reactions[k].Product

\* ------------------------------------------------------------- C22
\* the reaction at position j produces symbol c one layer below reaction i
ChildAt(i, j, c) ==
    /\ j \in DOMAIN reactions
    /\ j < i
    /\ reactions[j].Product = c
    /\ reactions[j].Layer = reactions[i].Layer + 1

\* C22: both sub-builds are complete before a reaction is recorded: the
\* reaction that produces a composite second constituent is the one just
\* before it, the one that produces a composite first constituent stands just
\* before the second constituent's subtree, each a layer below; the id of a
\* reaction is its 0-based position (so no id is used twice); and when the
\* split has returned the last reaction is the root, at layer 0.
C22_ChildrenPrecedeParent ==
    /\ \A i \in DOMAIN reactions :
           LET r == reactions[i]
           IN  /\ r.Reaction = i - 1
               /\ Composite(r.Constituent2) => ChildAt(i, i - 1, r.Constituent2)
               /\ Composite(r.Constituent1) =>
                      ChildAt(i, i - Len(r.Constituent2), r.Constituent1)
    /\ (pc \in {"assign", "extract", "analyse"} /\ reactions # << >>) =>
           /\ reactions[Len(reactions)].Product = final_product
           /\ reactions[Len(reactions)].Layer = 0

\* a finished split whose root has two composite constituents
C22_Witness ==
    /\ pc = "assign"
    /\ Len(reactions) = 3
    /\ Composite(reactions[3].Constituent1)
    /\ Composite(reactions[3].Constituent2)

\* ------------------------------------------------------------- C23
\* the steps split_product still takes for a call on a string of k characters:
\* 1 for a leaf; for a composite the choice, the two calls, the step between
\* them and the record
StepsOfCall(k) == 4 * k - 3

\* the steps a frame of the call stack still takes once the frames above it
\* have returned
StepsOfFrame(fr) ==
    IF fr.at = "call" THEN StepsOfCall(Len(fr.product))
    ELSE IF fr.at = "first" THEN 2 + StepsOfCall(Len(fr.reactant2))
    ELSE 1

RECURSIVE StepsLeft(_)
StepsLeft(st) ==
    IF st = << >> THEN 0 ELSE StepsOfFrame(Head(st)) + StepsLeft(Tail(st))

\* every call on the stack is on a non-empty string strictly shorter than its
\* caller's, and neither the depth of the recursion nor a layer exceeds
\* len(final_product)
ShrinkingCalls ==
    /\ \A k \in DOMAIN stack : stack[k].product # << >>
    /\ \A k \in DOMAIN stack :
           k > 1 => Len(stack[k].product) < Len(stack[k - 1].product)
    /\ Len(stack) <= Len(final_product)
    /\ \A k \in DOMAIN stack : stack[k].layer <= Len(final_product)
    /\ \A i \in DOMAIN reactions : reactions[i].Layer <= Len(final_product)

\* C23: for a non-empty final product the recursive split terminates, whatever
\* the split choices: every step of split_product leaves one step less to do,
\* each recursive call is on a strictly shorter non-empty string, and the
\* depth and the layers stay within len(final_product).
C23_SplitTerminates ==
    [][(final_product # << >> /\ pc = "split") =>
          /\ ShrinkingCalls /\ ShrinkingCalls'
          /\ pc' \in {"split", "assign"}
          /\ pc' = "split" => StepsLeft(stack') = StepsLeft(stack) - 1
          /\ pc' = "assign" => StepsLeft(stack) = 0]_vars

\* the recursion at its deepest on a product of four characters
C23_Witness ==
    /\ pc = "split"
    /\ Len(final_product) = 4
    /\ Len(stack) = 4

\* ------------------------------------------------------------- C24
\* C24: one build on a fresh AutocatalyticSet with a final product of L >= 1
\* characters records exactly L - 1 reactions; both constituents of every
\* reaction are non-empty and their lengths add up to the product's.
C24_OneReactionPerJoin ==
    /\ \A i \in DOMAIN reactions :
           /\ reactions[i].Constituent1 # << >>
           /\ reactions[i].Constituent2 # << >>
           /\ Len(reactions[i].Constituent1) + Len(reactions[i].Constituent2)
                  = Len(reactions[i].Product)
    /\ (BuiltOnce /\ Len(final_product) >= 1) =>
           Len(reactions) = Len(final_product) - 1

\* a build of a product of four characters
C24_Witness ==
    /\ Built
    /\ Len(final_product) = 4
    /\ Len(reactions) = 3

\* ------------------------------------------------------------- C25
SomeCatalyst == \E i \in DOMAIN reactions : reactions[i].Catalyst # << >>

\* C25: for a built ReactionSet of a final product of two characters or more,
\* under a valid strategy and probability, the whole set is autocatalytic
\* exactly when some reaction has a non-empty catalyst; so a trial that
\* counted an autocatalytic subnetwork has whole_set_autocatalytic = 1, and
\* the trial's multiplier m is 1 exactly when no catalyst was assigned.
C25_WholeSetAutocatalyticIffCatalysed ==
    (ValidConfiguration /\ Len(final_product) >= 2) =>
        /\ Built =>
               (is_autocatalytic_subnetwork(Rows(reactions_df), TRUE)
                    <=> CatalystsOf(Rows(reactions_df)) # {})
        /\ (pc = "loop" /\ Built) =>
               /\ LastOf(whole_set_autocatalytic) = 1 <=> SomeCatalyst
               /\ LastOf(autocatalytic_subnetwork_counts) >= 1
                      => LastOf(whole_set_autocatalytic) = 1
               /\ (1 + LastOf(whole_set_autocatalytic)
                       + LastOf(autocatalytic_subnetwork_counts) = 1)
                      <=> ~SomeCatalyst

\* a finished trial with catalysts, an autocatalytic whole set and no
\* autocatalytic subnetwork among its two
C25_Witness ==
    /\ pc = "loop"
    /\ Built
    /\ SomeCatalyst
    /\ LastOf(whole_set_autocatalytic) = 1
    /\ LastOf(subnetwork_counts) = 2
    /\ LastOf(autocatalytic_subnetwork_counts) = 0

\* ------------------------------------------------------------- C27
RECURSIVE PowerOfTwo(_)
PowerOfTwo(k) == IF k = 0 THEN 1 ELSE 2 * PowerOfTwo(k - 1)

\* ceil(log2(l)) for l >= 1
CeilLog2(l) == CHOOSE k \in 0..l : PowerOfTwo(k) >= l /\ \A j \in 0..(k - 1) : PowerOfTwo(j) < l

\* C27: for a final product of L >= 2 characters the max_depth of every
\* finished trial lies between ceil(log2(L)) and L - 1, whatever the splits.
C27_MaxDepthBounds ==
    (Len(final_product) >= 2 /\ pc = "loop" /\ Built) =>
        /\ LastOf(max_depths) >= CeilLog2(Len(final_product))
        /\ LastOf(max_depths) <= Len(final_product) - 1

\* a trial on four characters that reached the lower bound, 2, which is below
\* the upper bound, 3
C27_Witness ==
    /\ pc = "loop"
    /\ Built
    /\ Len(final_product) = 4
    /\ LastOf(max_depths) = 2
    /\ CeilLog2(4) = 2

\* ------------------------------------------------------------- C26
DistinctCharacters(s) == \A i, j \in DOMAIN s : i # j => s[i] # s[j]

\* C26: with probability 1.0 and a final product of two or more pairwise
\* distinct characters every reaction that assign_catalysts has passed has a
\* non-empty catalyst, under strategy 0, 1 and 2.
C26_EveryReactionCatalysed ==
    (/\ catalyst_probability = Scale
     /\ switch_cat \in Strategies
     /\ Len(final_product) >= 2
     /\ DistinctCharacters(final_product)
     /\ builds <= 1) =>
        \A i \in Assigned : reactions[i].Catalyst # << >>

\* a built set of two reactions under a strategy without reuse
C26_Witness ==
    /\ catalyst_probability = Scale
    /\ switch_cat \in {0, 1}
    /\ DistinctCharacters(final_product)
    /\ Built
    /\ Len(reactions) = 2
    /\ \A i \in DOMAIN reactions : reactions[i].Catalyst # << >>

\* ------------------------------------------------------------- C28
\* a direct caller has called build_reactions twice and the second split is
\* over
Rebuilt ==
    /\ method = Direct
    /\ builds = 2
    /\ pc # "split"
    /\ Len(final_product) >= 2

\* the second assign_catalysts is at a reaction of the first build
RedrawingFirstBuild ==
    /\ method = Direct
    /\ builds = 2
    /\ pc = "assign"
    /\ idx <= Len(final_product) - 1

\* C28: build_reactions resets nothing. After a second call on the same set
\* (final product of L >= 2 characters) the list holds 2*(L-1) reactions, two
\* of them produce the final product, every id is the list position, and the
\* second assign_catalysts starts at the first reaction with an empty used set
\* and writes the catalyst of every reaction of the first build from a new
\* draw.
C28_SecondBuildAppends ==
    /\ [](Rebuilt =>
            /\ Len(reactions) = 2 * (Len(final_product) - 1)
            /\ Cardinality(ProducersOf(final_product)) = 2
            /\ \A i \in DOMAIN reactions : reactions[i].Reaction = i - 1)
    /\ [][(method = Direct /\ builds = 2 /\ pc = "split" /\ pc' = "assign") =>
              (idx' = 1 /\ used_catalysts' = {})]_vars
    /\ [][RedrawingFirstBuild =>
              LET possible == possible_catalysts(switch_cat,
                                  all_possible_catalysts, used_catalysts,
                                  reactions[idx])
              IN  /\ idx' = idx + 1
                  /\ ~draw_passes(draw', catalyst_probability)
                         => reactions'[idx].Catalyst = << >>
                  /\ draw_passes(draw', catalyst_probability)
                         => IF possible = << >>
                            THEN reactions'[idx].Catalyst = << >>
                            ELSE \E k \in DOMAIN possible :
                                     reactions'[idx].Catalyst = possible[k]]_vars

\* the second assign_catalysts of a set for two characters is over and
\* build_reactions has not yet replaced the table of the first build: two
\* reactions, both producing the final product, and the reaction of the first
\* build no longer has the catalyst it had in that table
C28_Witness ==
    /\ Rebuilt
    /\ pc = "assign"
    /\ idx = Len(reactions) + 1
    /\ Len(reactions) = 2
    /\ Cardinality(ProducersOf(final_product)) = 2
    /\ reactions[1].Catalyst # reactions_df[1].Catalyst

\* ------------------------------------------------------------- C30
\* extract_subnetworks runs to its end in this step
Extracting == pc = "extract" /\ pc' # "raised"

\* C30: extract_subnetworks changes no reaction, neither in the list nor in
\* the table; every entry the SubnetworkDict had before a call it still has,
\* with the same rows, after it; and a second call on a built set leaves the
\* SubnetworkDict, keys and rows, as the first call left it.
C30_ExtractIdempotent ==
    [][Extracting =>
          /\ reactions' = reactions
          /\ reactions_df' = reactions_df
          /\ \A k \in DOMAIN subnetwork_dict :
                 /\ k \in DOMAIN subnetwork_dict'
                 /\ subnetwork_dict'[k] = subnetwork_dict[k]
          /\ extracts >= 2 => subnetwork_dict' = subnetwork_dict]_vars

\* a direct caller has extracted twice from a set with two intermediate
\* products
C30_Witness ==
    /\ method = Direct
    /\ extracts = 2
    /\ pc = "ready"
    /\ Cardinality(DOMAIN subnetwork_dict) = 2
    /\ \E i \in DOMAIN reactions : reactions[i].Catalyst # << >>

\* ------------------------------------------------------------- C29
\* what the trials lo..hi of the object contribute, by the amplification rule
RECURSIVE AmplifiedOver(_, _)
AmplifiedOver(lo, hi) ==
    IF hi < lo THEN << >>
    ELSE AmplifiedOver(lo, hi - 1)
             \o [k \in 1..Copies(switch_aut_prob, MultiplierOf(hi)) |-> max_depths[hi]]

\* C29: the per-trial lists of an AssemblyAnalysis are never reset. During
\* its k-th call of find_assembly_list each of subnetwork_counts,
\* autocatalytic_subnetwork_counts and max_depths holds (k-1)*n entries plus
\* one per finished trial of the call, k*n when the call returns; the list the
\* call returns covers the n trials of that call only.
C29_ListsNeverReset ==
    method = "find_assembly_list" =>
        /\ Len(subnetwork_counts) = (runs - 1) * n + trial
        /\ Len(autocatalytic_subnetwork_counts) = (runs - 1) * n + trial
        /\ Len(max_depths) = (runs - 1) * n + trial
        /\ pc \in {"returned", "collected"} =>
               /\ Len(subnetwork_counts) = runs * n
               /\ Len(autocatalytic_subnetwork_counts) = runs * n
               /\ Len(max_depths) = runs * n
               /\ switch_aut_prob \in Modes =>
                      result = AmplifiedOver((runs - 1) * n + 1, runs * n)
               /\ switch_aut_prob \notin {"True", "square"} => Len(result) = n

\* the second call of two trials has returned: four entries in each list, and
\* a returned list made of the last two trials, the latest of them amplified
C29_Witness ==
    /\ method = "find_assembly_list"
    /\ pc = "returned"
    /\ runs = 2
    /\ n = 2
    /\ Len(max_depths) = 4
    /\ Len(subnetwork_counts) = 4
    /\ Len(autocatalytic_subnetwork_counts) = 4
    /\ switch_aut_prob = "True"
    /\ MultiplierOf(4) = 2
    /\ MultiplierOf(3) = 1
    /\ result = <<1, 1, 1>>

====
